---------------------------- MODULE Spec2Model ----------------------------
(***************************************************************************)
(* Model of the listing ingestion core of st_nemostore (utils.py, app.py). *)
(*                                                                         *)
(* Text is a sequence of one-character strings.  The document alphabet is  *)
(* the JSON punctuation, the double quote, the space, the decimal digits,  *)
(* the minus sign and letters; json.loads is modelled on that alphabet     *)
(* (objects, arrays, strings without escapes, integers, blanks between     *)
(* tokens).  Fractions, exponents and the literals true/false/null are not *)
(* part of any document drawn here.                                        *)
(*                                                                         *)
(* A Python value is the record [t, n, s, keys, kids]:                     *)
(*   t = "none"              None                                          *)
(*   t = "int",   n          an integer                                    *)
(*   t = "float", n          a float, n counting tenths (170.0 is n=1700)  *)
(*   t = "nan"               float('nan')                                  *)
(*   t = "str",   s          a string                                      *)
(*   t = "list",  kids       a list                                        *)
(*   t = "dict",  keys,kids  a dict in insertion order                     *)
(***************************************************************************)
EXTENDS Integers, Sequences, FiniteSets

VARIABLES
    pc,          \* "start", then the name of the function that has run
    src,         \* how the environment composed the input (not read by the code)
    content,     \* extract_data_from_markdown / load_and_preprocess_data: the document
    json_part,   \* extract_data_from_markdown: local json_part
    html_part,   \* extract_data_from_markdown: local html_part (second result)
    json_str,    \* extract_data_from_markdown: local json_str, as handed to json.loads
    found,       \* extract_data_from_markdown: start_idx != -1
    json_data,   \* extract_data_from_markdown: first result
    df,          \* load_and_preprocess_data: first result
    raw_html,    \* load_and_preprocess_data: second result
    v,           \* format_kor_money_from_thousand: argument
    fmt,         \* format_kor_money_from_thousand: result
    html_content,\* parse_html_details: argument
    details      \* parse_html_details: result

vars == <<pc, src, content, json_part, html_part, json_str, found, json_data,
          df, raw_html, v, fmt, html_content, details>>

-----------------------------------------------------------------------------
(* Python values *)

PyNone == [t |-> "none", n |-> 0, s |-> <<>>, keys |-> <<>>, kids |-> <<>>]
PyInt(i) == [t |-> "int", n |-> i, s |-> <<>>, keys |-> <<>>, kids |-> <<>>]
PyFloat(tenths) == [t |-> "float", n |-> tenths, s |-> <<>>, keys |-> <<>>, kids |-> <<>>]
PyNaN == [t |-> "nan", n |-> 0, s |-> <<>>, keys |-> <<>>, kids |-> <<>>]
PyStr(chars) == [t |-> "str", n |-> 0, s |-> chars, keys |-> <<>>, kids |-> <<>>]
PyList(xs) == [t |-> "list", n |-> 0, s |-> <<>>, keys |-> <<>>, kids |-> xs]
PyDict(ks, xs) == [t |-> "dict", n |-> 0, s |-> <<>>, keys |-> ks, kids |-> xs]

\* Index of key k in a key list, 0 when absent.
RECURSIVE KeyIndex(_, _, _)
KeyIndex(ks, k, i) ==
    IF i > Len(ks) THEN 0
    ELSE IF ks[i] = k THEN i
    ELSE KeyIndex(ks, k, i + 1)

\* k in d
HasKey(d, k) == d.t = "dict" /\ KeyIndex(d.keys, k, 1) # 0

\* d[k]
GetKey(d, k) == d.kids[KeyIndex(d.keys, k, 1)]

\* d[k] = x on a dict: a new key is appended, an old key keeps its place.
DictSet(d, k, x) ==
    LET i == KeyIndex(d.keys, k, 1) IN
    IF i = 0 THEN PyDict(Append(d.keys, k), Append(d.kids, x))
    ELSE PyDict(d.keys, [d.kids EXCEPT ![i] = x])

-----------------------------------------------------------------------------
(* str methods *)

Q == "\""
Whitespace == {" "}
Digit == {"0", "1", "2", "3", "4", "5", "6", "7", "8", "9"}
DigitValue(c) ==
    CASE c = "0" -> 0 [] c = "1" -> 1 [] c = "2" -> 2 [] c = "3" -> 3
      [] c = "4" -> 4 [] c = "5" -> 5 [] c = "6" -> 6 [] c = "7" -> 7
      [] c = "8" -> 8 [] c = "9" -> 9

\* s[i:] and s[:i] with 1-based positions: from position i on, up to position i.
From(s, i) == SubSeq(s, i, Len(s))
UpTo(s, i) == SubSeq(s, 1, i)

\* sub occurs in s at position i
OccursAt(s, sub, i) ==
    /\ i >= 1
    /\ i + Len(sub) - 1 <= Len(s)
    /\ SubSeq(s, i, i + Len(sub) - 1) = sub

\* s.find(sub): the first position of sub at or after i, 0 for Python's -1.
RECURSIVE FindFrom(_, _, _)
FindFrom(s, sub, i) ==
    IF i + Len(sub) - 1 > Len(s) THEN 0
    ELSE IF OccursAt(s, sub, i) THEN i
    ELSE FindFrom(s, sub, i + 1)

Find(s, sub) == FindFrom(s, sub, 1)

\* s.rfind(char): the last position of char at or before i, 0 for Python's -1.
RECURSIVE RFindFrom(_, _, _)
RFindFrom(s, char, i) ==
    IF i < 1 THEN 0
    ELSE IF s[i] = char THEN i
    ELSE RFindFrom(s, char, i - 1)

RFind(s, char) == RFindFrom(s, char, Len(s))

RECURSIVE LStrip(_)
LStrip(s) ==
    IF s # <<>> /\ Head(s) \in Whitespace THEN LStrip(Tail(s)) ELSE s

RECURSIVE RStrip(_)
RStrip(s) ==
    IF s # <<>> /\ s[Len(s)] \in Whitespace THEN RStrip(UpTo(s, Len(s) - 1)) ELSE s

\* s.strip()
Strip(s) == RStrip(LStrip(s))

\* s.endswith(char)
EndsWith(s, char) == s # <<>> /\ s[Len(s)] = char

-----------------------------------------------------------------------------
(* json.loads *)

\* A scan result: the value and the position after it, or a failure (the
\* JSONDecodeError that the callers catch).
Scanned(x, p) == [ok |-> TRUE, val |-> x, pos |-> p]
ScanError == [ok |-> FALSE, val |-> PyNone, pos |-> 0]

\* WHITESPACE.match(s, i).end(): the first position at or after i that is not blank.
RECURSIVE SkipWs(_, _)
SkipWs(s, i) ==
    IF i <= Len(s) /\ s[i] \in Whitespace THEN SkipWs(s, i + 1) ELSE i

\* scanstring: i is the position after the opening quote.
ScanString(s, i) ==
    LET j == FindFrom(s, <<Q>>, i) IN
    IF j = 0 THEN ScanError ELSE Scanned(PyStr(SubSeq(s, i, j - 1)), j + 1)

\* The end of the digit run starting at i (the position after its last digit).
RECURSIVE DigitsEnd(_, _)
DigitsEnd(s, i) ==
    IF i <= Len(s) /\ s[i] \in Digit THEN DigitsEnd(s, i + 1) ELSE i

RECURSIVE DigitsValue(_, _, _, _)
DigitsValue(s, i, j, acc) ==
    IF i >= j THEN acc ELSE DigitsValue(s, i + 1, j, acc * 10 + DigitValue(s[i]))

\* NUMBER_RE: -?(0|[1-9][0-9]*), an integer.
ScanNumber(s, i) ==
    LET neg == s[i] = "-"
        b == IF neg THEN i + 1 ELSE i
    IN  IF b > Len(s) \/ s[b] \notin Digit THEN ScanError
        ELSE LET e == IF s[b] = "0" THEN b + 1 ELSE DigitsEnd(s, b)
                 n == DigitsValue(s, b, e, 0)
             IN  Scanned(PyInt(IF neg THEN 0 - n ELSE n), e)

RECURSIVE ScanOnce(_, _)
RECURSIVE ObjectLoop(_, _, _)
RECURSIVE ArrayLoop(_, _, _)

\* JSONObject after a member's delimiter: f is the position of the next key's
\* opening quote.
ObjectMore(s, d, f) ==
    IF f > Len(s) \/ s[f] # Q THEN ScanError ELSE ObjectLoop(s, f + 1, d)

\* JSONObject after a member: e is the position of the delimiter.
ObjectDelim(s, d, e) ==
    IF e > Len(s) THEN ScanError
    ELSE IF s[e] = "}" THEN Scanned(d, e + 1)
    ELSE IF s[e] # "," THEN ScanError
    ELSE ObjectMore(s, d, SkipWs(s, e + 1))

\* JSONObject after a member's value x: the pair is stored under key.
ObjectValue(s, d, key, x) ==
    IF ~x.ok THEN ScanError
    ELSE ObjectDelim(s, DictSet(d, key, x.val), SkipWs(s, x.pos))

\* JSONObject after a member's key: c is the position of the colon.
ObjectColon(s, d, key, c) ==
    IF c > Len(s) \/ s[c] # ":" THEN ScanError
    ELSE ObjectValue(s, d, key, ScanOnce(s, SkipWs(s, c + 1)))

\* JSONObject after the scan k of a member's key.
ObjectKey(s, d, k) ==
    IF ~k.ok THEN ScanError ELSE ObjectColon(s, d, k.val.s, SkipWs(s, k.pos))

\* JSONObject: one "key": value member; i is the position after the key's
\* opening quote, d the dict built so far.
ObjectLoop(s, i, d) == ObjectKey(s, d, ScanString(s, i))

\* JSONObject: i is the position after the opening brace.
ScanObject(s, i) ==
    LET j == SkipWs(s, i) IN
    IF j > Len(s) THEN ScanError
    ELSE IF s[j] = "}" THEN Scanned(PyDict(<<>>, <<>>), j + 1)
    ELSE IF s[j] # Q THEN ScanError
    ELSE ObjectLoop(s, j + 1, PyDict(<<>>, <<>>))

\* JSONArray after an element: e is the position of the delimiter.
ArrayDelim(s, xs, e) ==
    IF e > Len(s) THEN ScanError
    ELSE IF s[e] = "]" THEN Scanned(PyList(xs), e + 1)
    ELSE IF s[e] # "," THEN ScanError
    ELSE ArrayLoop(s, SkipWs(s, e + 1), xs)

\* JSONArray after the scan x of an element.
ArrayValue(s, xs, x) ==
    IF ~x.ok THEN ScanError ELSE ArrayDelim(s, Append(xs, x.val), SkipWs(s, x.pos))

\* JSONArray: one element; i is the position of the element, xs the list so far.
ArrayLoop(s, i, xs) == ArrayValue(s, xs, ScanOnce(s, i))

\* JSONArray: i is the position after the opening bracket.
ScanArray(s, i) ==
    LET j == SkipWs(s, i) IN
    IF j > Len(s) THEN ScanError
    ELSE IF s[j] = "]" THEN Scanned(PyList(<<>>), j + 1)
    ELSE ArrayLoop(s, j, <<>>)

\* scan_once
ScanOnce(s, i) ==
    IF i > Len(s) THEN ScanError
    ELSE IF s[i] = Q THEN ScanString(s, i + 1)
    ELSE IF s[i] = "{" THEN ScanObject(s, i + 1)
    ELSE IF s[i] = "[" THEN ScanArray(s, i + 1)
    ELSE IF s[i] \in Digit \cup {"-"} THEN ScanNumber(s, i)
    ELSE ScanError

\* JSONDecoder.decode after raw_decode: x is the scan of the document, which
\* only blanks may follow ("Extra data" otherwise).
DecodeEnd(s, x) ==
    IF ~x.ok THEN [ok |-> FALSE, val |-> PyNone]
    ELSE IF SkipWs(s, x.pos) # Len(s) + 1 THEN [ok |-> FALSE, val |-> PyNone]
    ELSE [ok |-> TRUE, val |-> x.val]

\* json.loads(s): [ok, val]; ok = FALSE stands for the raised JSONDecodeError.
Loads(s) == DecodeEnd(s, ScanOnce(s, SkipWs(s, 1)))

-----------------------------------------------------------------------------
(* utils.extract_data_from_markdown *)

Marker == <<"<", "d", "i", "v">>

\* The last position of sub in s at or before i, 0 when there is none.
RECURSIVE RFindSubFrom(_, _, _)
RFindSubFrom(s, sub, i) ==
    IF i < 1 THEN 0
    ELSE IF OccursAt(s, sub, i) THEN i
    ELSE RFindSubFrom(s, sub, i - 1)

\* Mutant of SplitOnce: s.rsplit(sep, 1), the split at the last sep.
SplitLast(s, sep) ==
    LET k == RFindSubFrom(s, sep, Len(s)) IN <<UpTo(s, k - 1), From(s, k + Len(sep))>>

\* s.split(sep, 1) when sep occurs in s: the text before the first sep and the
\* text after it.
SplitOnce(s, sep) ==
    LET k == Find(s, sep) IN <<UpTo(s, k - 1), From(s, k + Len(sep))>>

\* Mutant of LastValidCharIdx: the closing brace left out of the list.
LastValidCharIdxNoBrace(s) ==
    LET b == RFind(s, "]")
        c == RFind(s, ",")
    IN  IF c > b THEN c ELSE b

\* The loop over ['}', ']', ',']: the largest rfind, 0 for Python's -1.
LastValidCharIdx(s) ==
    LET a == RFind(s, "}")
        b == RFind(s, "]")
        c == RFind(s, ",")
        ab == IF b > a THEN b ELSE a
    IN  IF c > ab THEN c ELSE ab

\* json_str = json_str[:last_valid_char_idx + 1].strip(), when a terminator exists.
CutAfterLastValidChar(s) ==
    LET i == LastValidCharIdx(s) IN IF i # 0 THEN Strip(UpTo(s, i)) ELSE s

\* Mutant of StripTrailingComma: the trailing comma is kept.
KeepTrailingComma(s) == s

\* if json_str.endswith(','): json_str = json_str[:-1].strip()
StripTrailingComma(s) ==
    IF EndsWith(s, ",") THEN Strip(UpTo(s, Len(s) - 1)) ELSE s

\* The text handed to json.loads, from json_part and the position of its first '{'.
JsonStr(jp, start_idx) ==
    StripTrailingComma(CutAfterLastValidChar(Strip(From(jp, start_idx))))

\* Mutant of Suffixes: the first suffix lacks its brace.
SuffixesTypo == << <<"]">>, <<"}">>, <<"]", "}">>, <<" ", "]", " ", "}">> >>

Suffixes == << <<"]", "}">>, <<"}">>, <<"]", "}">>, <<" ", "]", " ", "}">> >>

\* try: json_data = <r> except: <handler>, r being the outcome of json.loads.
TryExcept(r, handler) == IF r.ok THEN r.val ELSE handler

\* Mutant of TrySuffixes: an empty object instead of None when every suffix fails.
RECURSIVE TrySuffixesDefault(_, _, _)
TrySuffixesDefault(s, sufs, i) ==
    IF i > Len(sufs) THEN PyDict(<<>>, <<>>)
    ELSE TryExcept(Loads(s \o sufs[i]), TrySuffixesDefault(s, sufs, i + 1))

\* for suffix in [...]: try json.loads(json_str + suffix); break
RECURSIVE TrySuffixes(_, _, _)
TrySuffixes(s, sufs, i) ==
    IF i > Len(sufs) THEN PyNone
    ELSE TryExcept(Loads(s \o sufs[i]), TrySuffixes(s, sufs, i + 1))

\* Mutant of ParseOrRepair: the strict parse alone.
ParseStrictOnly(s) == TryExcept(Loads(s), PyNone)

\* try json.loads(json_str) except: the suffix loop
ParseOrRepair(s) == TryExcept(Loads(s), TrySuffixes(s, Suffixes, 1))

\* The JSON half of the function on a given json_part: [found, json_str, json_data].
ExtractJson(jp) ==
    LET start_idx == Find(jp, <<"{">>) IN
    IF start_idx = 0
    THEN [found |-> FALSE, json_str |-> <<>>, json_data |-> PyNone]
    ELSE LET s == JsonStr(jp, start_idx) IN
         [found |-> TRUE, json_str |-> s, json_data |-> ParseOrRepair(s)]

\* The split on "<div": [json_part, html_part].
SplitDocument(doc) ==
    IF Find(doc, Marker) # 0
    THEN LET parts == SplitOnce(doc, Marker) IN
         [json_part |-> Strip(parts[1]), html_part |-> Marker \o parts[2]]
    ELSE [json_part |-> doc, html_part |-> <<>>]

\* extract_data_from_markdown(content): its two results and its locals.
ExtractDataFromMarkdown(doc) ==
    LET sp == SplitDocument(doc)
        ex == ExtractJson(sp.json_part)
    IN  [json_part |-> sp.json_part, html_part |-> sp.html_part,
         found |-> ex.found, json_str |-> ex.json_str, json_data |-> ex.json_data]

-----------------------------------------------------------------------------
(* utils.format_kor_money_from_thousand *)

DigitChars == <<"0", "1", "2", "3", "4", "5", "6", "7", "8", "9">>

\* str(n) for n >= 0
RECURSIVE NatText(_)
NatText(n) ==
    IF n < 10 THEN <<DigitChars[n + 1]>>
    ELSE NatText(n \div 10) \o <<DigitChars[(n % 10) + 1]>>

\* f"{n}"
IntText(n) == IF n < 0 THEN <<"-">> \o NatText(0 - n) ELSE NatText(n)

\* Three digits, zero padded.
Pad3(n) ==
    <<DigitChars[(n \div 100) + 1], DigitChars[((n \div 10) % 10) + 1],
      DigitChars[(n % 10) + 1]>>

RECURSIVE GroupedNat(_)
GroupedNat(n) ==
    IF n < 1000 THEN NatText(n)
    ELSE GroupedNat(n \div 1000) \o <<",">> \o Pad3(n % 1000)

\* f"{n:,}"
GroupedText(n) == IF n < 0 THEN <<"-">> \o GroupedNat(0 - n) ELSE GroupedNat(n)

\* All characters of s from position i on are digits.
RECURSIVE AllDigits(_, _)
AllDigits(s, i) ==
    IF i > Len(s) THEN TRUE ELSE s[i] \in Digit /\ AllDigits(s, i + 1)

\* int(x): [ok, n]; ok = FALSE stands for the ValueError or TypeError raised.
\* A float is truncated toward zero; a string converts when it is a decimal
\* integer literal.
ToInt(x) ==
    CASE x.t = "int" -> [ok |-> TRUE, n |-> x.n]
      [] x.t = "float" ->
            [ok |-> TRUE,
             n |-> IF x.n >= 0 THEN x.n \div 10 ELSE 0 - ((0 - x.n) \div 10)]
      [] x.t = "str" ->
            LET body == IF x.s # <<>> /\ x.s[1] = "-" THEN Tail(x.s) ELSE x.s
                n == DigitsValue(body, 1, Len(body) + 1, 0)
            IN  IF body # <<>> /\ AllDigits(body, 1)
                THEN [ok |-> TRUE, n |-> IF body = x.s THEN n ELSE 0 - n]
                ELSE [ok |-> FALSE, n |-> 0]
      [] OTHER -> [ok |-> FALSE, n |-> 0]

\* x == 0
EqualsZero(x) == x.t \in {"int", "float"} /\ x.n = 0

\* v is None or (isinstance(v, float) and np.isnan(v))
IsNoneOrNaN(x) == x.t \in {"none", "nan"}

\* i / 10 for an int i: the float of i tenths.
TrueDiv10(i) == PyFloat(i)

\* Mutant of FloatGE: x > k.
FloatGT(x, k) == x.n > k * 10

\* x >= k, x // k and x % k for a float x and a positive int k.
FloatGE(x, k) == x.n >= k * 10
FloatFloorDiv(x, k) == PyFloat((x.n \div (k * 10)) * 10)
FloatMod(x, k) == PyFloat(x.n % (k * 10))

\* The branch on val_man, from line 32 on.
FormatValMan(val_man) ==
    IF FloatGE(val_man, 10000)
    THEN LET uk == ToInt(FloatFloorDiv(val_man, 10000)).n
             man == ToInt(FloatMod(val_man, 10000)).n
         IN  IF man > 0
             THEN IntText(uk) \o <<"억", " ">> \o GroupedText(man) \o <<"만">>
             ELSE IntText(uk) \o <<"억">>
    ELSE GroupedText(ToInt(val_man).n) \o <<"만">>

\* format_kor_money_from_thousand(v): the text returned.
FormatKorMoneyFromThousand(x) ==
    IF IsNoneOrNaN(x) \/ EqualsZero(x) THEN <<"0">>
    ELSE LET i == ToInt(x) IN
         IF ~i.ok THEN <<"0">> ELSE FormatValMan(TrueDiv10(i.n))

-----------------------------------------------------------------------------
(* app.load_and_preprocess_data *)

\* A DataFrame is [t |-> "frame", keys |-> the column names, kids |-> the rows],
\* each row a list of cells in column order.
PyFrame(columns, rows) ==
    [t |-> "frame", n |-> 0, s |-> <<>>, keys |-> columns, kids |-> rows]

Chars_items == <<"i", "t", "e", "m", "s">>
Chars_deposit == <<"d", "e", "p", "o", "s", "i", "t">>
Chars_monthlyRent == <<"m", "o", "n", "t", "h", "l", "y", "R", "e", "n", "t">>
Chars_premium == <<"p", "r", "e", "m", "i", "u", "m">>
Chars_maintenanceFee ==
    <<"m", "a", "i", "n", "t", "e", "n", "a", "n", "c", "e", "F", "e", "e">>
Chars_man == <<"_", "m", "a", "n">>
Chars_fmt == <<"_", "f", "m", "t">>

\* amount_cols
AmountCols == <<Chars_deposit, Chars_monthlyRent, Chars_premium, Chars_maintenanceFee>>

\* The keys of ks not yet in acc, appended to acc in order.
RECURSIVE AddKeys(_, _, _)
AddKeys(ks, j, acc) ==
    IF j > Len(ks) THEN acc
    ELSE AddKeys(ks, j + 1,
                 IF KeyIndex(acc, ks[j], 1) = 0 THEN Append(acc, ks[j]) ELSE acc)

\* The columns of DataFrame(items): the records' keys in order of first appearance.
RECURSIVE ColumnsOf(_, _, _)
ColumnsOf(items, i, acc) ==
    IF i > Len(items) THEN acc
    ELSE ColumnsOf(items, i + 1, AddKeys(items[i].keys, 1, acc))

\* The column's cells, one per record: the record's value, NaN where it has none.
RawColumn(items, c) ==
    [i \in 1 .. Len(items) |-> IF HasKey(items[i], c) THEN GetKey(items[i], c) ELSE PyNaN]

\* The column's dtype: ints beside a missing value become floats.
TypedColumn(cells) ==
    IF /\ \E i \in 1 .. Len(cells) : cells[i].t = "nan"
       /\ \A i \in 1 .. Len(cells) : cells[i].t \in {"nan", "int"}
    THEN [i \in 1 .. Len(cells) |->
             IF cells[i].t = "int" THEN PyFloat(cells[i].n * 10) ELSE cells[i]]
    ELSE cells

\* pd.DataFrame(x): [ok, frame]; ok = FALSE stands for the ValueError raised
\* for an x that is no list.  The documents drawn here hold lists of objects.
DataFrameOf(x) ==
    IF x.t # "list" THEN [ok |-> FALSE, frame |-> PyNone]
    ELSE LET items == x.kids
             columns == ColumnsOf(items, 1, <<>>)
             cols == [j \in 1 .. Len(columns) |-> TypedColumn(RawColumn(items, columns[j]))]
         IN  [ok |-> TRUE,
              frame |-> PyFrame(columns,
                  [i \in 1 .. Len(items) |->
                      PyList([j \in 1 .. Len(columns) |-> cols[j][i]])])]

\* df.empty
FrameEmpty(f) == f.kids = <<>> \/ f.keys = <<>>

\* col in df.columns
HasColumn(f, c) == KeyIndex(f.keys, c, 1) # 0

\* df[col]: the cells of the column
Column(f, c) ==
    [i \in 1 .. Len(f.kids) |-> f.kids[i].kids[KeyIndex(f.keys, c, 1)]]

\* df[col] = cells: a new column is appended, an old one overwritten.
SetColumn(f, c, cells) ==
    LET j == KeyIndex(f.keys, c, 1) IN
    IF j = 0
    THEN PyFrame(Append(f.keys, c),
                 [i \in 1 .. Len(f.kids) |-> PyList(Append(f.kids[i].kids, cells[i]))])
    ELSE PyFrame(f.keys,
                 [i \in 1 .. Len(f.kids) |->
                     PyList([f.kids[i].kids EXCEPT ![j] = cells[i]])])

\* cell / 10 inside df[col] / 10
CellDiv10(x) ==
    CASE x.t = "int" -> PyFloat(x.n)
      [] x.t = "float" -> PyFloat(x.n \div 10)
      [] OTHER -> x

\* df[col] / 10: [ok, cells]; ok = FALSE stands for the TypeError raised when a
\* cell is not a number.
SeriesDiv10(cells) ==
    IF \E i \in 1 .. Len(cells) : cells[i].t \notin {"int", "float", "nan"}
    THEN [ok |-> FALSE, cells |-> <<>>]
    ELSE [ok |-> TRUE, cells |-> [i \in 1 .. Len(cells) |-> CellDiv10(cells[i])]]

\* df[col].apply(format_kor_money_from_thousand)
SeriesFormat(cells) ==
    [i \in 1 .. Len(cells) |-> PyStr(FormatKorMoneyFromThousand(cells[i]))]

\* The same cell in every row.
Broadcast(f, x) == [i \in 1 .. Len(f.kids) |-> x]

\* One pass of the loop over amount_cols: [ok, frame].
AmountStep(f, col) ==
    IF HasColumn(f, col)
    THEN LET d == SeriesDiv10(Column(f, col)) IN
         IF ~d.ok THEN [ok |-> FALSE, frame |-> PyNone]
         ELSE [ok |-> TRUE,
               frame |-> SetColumn(SetColumn(f, col \o Chars_man, d.cells),
                                    col \o Chars_fmt, SeriesFormat(Column(f, col)))]
    ELSE [ok |-> TRUE,
          frame |-> SetColumn(SetColumn(f, col \o Chars_man, Broadcast(f, PyFloat(0))),
                               col \o Chars_fmt, Broadcast(f, PyStr(<<"0">>)))]

\* for col in amount_cols, from the i-th on.
RECURSIVE AmountLoop(_, _)
AmountLoop(f, i) ==
    IF i > Len(AmountCols) THEN [ok |-> TRUE, frame |-> f]
    ELSE LET r == AmountStep(f, AmountCols[i]) IN
         IF ~r.ok THEN r ELSE AmountLoop(r.frame, i + 1)

\* load_and_preprocess_data from the extracted pair on: [df, raw_html].  The
\* documents drawn carry no createdDateUtc, so lines 52-53 do nothing.
Preprocess(data, html) ==
    IF data.t = "none" THEN [df |-> PyNone, raw_html |-> html]
    ELSE IF ~HasKey(data, Chars_items) THEN [df |-> PyNone, raw_html |-> html]
    ELSE LET made == DataFrameOf(GetKey(data, Chars_items)) IN
         IF ~made.ok THEN [df |-> PyNone, raw_html |-> <<>>]
         ELSE IF FrameEmpty(made.frame) THEN [df |-> made.frame, raw_html |-> html]
         ELSE LET r == AmountLoop(made.frame, 1) IN
              IF ~r.ok THEN [df |-> PyNone, raw_html |-> <<>>]
              ELSE [df |-> r.frame, raw_html |-> html]

-----------------------------------------------------------------------------
(* utils.parse_html_details *)

\* The fragment as BeautifulSoup presents it: [empty, divs].  empty says the
\* text is the empty string; divs are its div elements in document order, each
\*   [class, rows, p, lis]
\*   rows: the tr elements, each [th, td], a cell being [some, text];
\*   p:    the first p element, [some, nodes], nodes its text nodes;
\*   lis:  the li elements, each [class, price1], price1 being [some, text].
\* A text is a sequence of words, " " among them.
NoText == [some |-> FALSE, text |-> <<>>]
SomeText(t) == [some |-> TRUE, text |-> t]
NoP == [some |-> FALSE, nodes |-> <<>>]
SomeP(nodes) == [some |-> TRUE, nodes |-> nodes]
Div(class, rows, p, lis) == [class |-> class, rows |-> rows, p |-> p, lis |-> lis]
Html(divs) == [empty |-> FALSE, divs |-> divs]
EmptyHtml == [empty |-> TRUE, divs |-> <<>>]

Key_comment == <<"comment">>
Key_similar_items == <<"similar_items">>
Key_price == <<"price">>

\* soup.find('div', class_=class): the position of the first such div, 0 for None.
RECURSIVE FindDiv(_, _, _)
FindDiv(divs, class, i) ==
    IF i > Len(divs) THEN 0
    ELSE IF divs[i].class = class THEN i
    ELSE FindDiv(divs, class, i + 1)

\* get_text(strip=True) of one text node
GetText(t) == Strip(t)

\* get_text(separator="\n", strip=True): the non-blank nodes, stripped, joined.
RECURSIVE JoinNodes(_, _, _)
JoinNodes(nodes, i, acc) ==
    IF i > Len(nodes) THEN acc
    ELSE LET t == Strip(nodes[i]) IN
         JoinNodes(nodes, i + 1,
                   IF t = <<>> THEN acc
                   ELSE IF acc = <<>> THEN t
                   ELSE acc \o <<"\n">> \o t)

\* The loop over the rows of the price table.
RECURSIVE PriceRows(_, _, _)
PriceRows(rows, i, d) ==
    IF i > Len(rows) THEN d
    ELSE PriceRows(rows, i + 1,
                   IF rows[i].th.some /\ rows[i].td.some
                   THEN DictSet(d, GetText(rows[i].th.text), PyStr(GetText(rows[i].td.text)))
                   ELSE d)

\* Lines 105-114.
PriceStep(divs, d) ==
    LET i == FindDiv(divs, "price-container", 1) IN
    IF i # 0 THEN PriceRows(divs[i].rows, 1, d) ELSE d

\* Lines 117-121.
CommentStep(divs, d) ==
    LET i == FindDiv(divs, "comment", 1) IN
    IF i # 0 /\ divs[i].p.some
    THEN DictSet(d, Key_comment, PyStr(JoinNodes(divs[i].p.nodes, 1, <<>>)))
    ELSE d

\* The loop over the li elements of the similar section.
RECURSIVE SimilarItems(_, _, _)
SimilarItems(lis, i, acc) ==
    IF i > Len(lis) THEN acc
    ELSE SimilarItems(lis, i + 1,
                      IF lis[i].class = "article-list-item" /\ lis[i].price1.some
                      THEN Append(acc, PyDict(<<Key_price>>,
                                              <<PyStr(GetText(lis[i].price1.text))>>))
                      ELSE acc)

\* Mutant of SimilarStep: the list is stored only when the section exists.
SimilarStepIfFound(divs, d) ==
    LET i == FindDiv(divs, "similar", 1) IN
    IF i # 0
    THEN DictSet(d, Key_similar_items, PyList(SimilarItems(divs[i].lis, 1, <<>>)))
    ELSE d

\* Lines 124-134.
SimilarStep(divs, d) ==
    LET i == FindDiv(divs, "similar", 1)
        similar_items == IF i # 0 THEN SimilarItems(divs[i].lis, 1, <<>>) ELSE <<>>
    IN  DictSet(d, Key_similar_items, PyList(similar_items))

\* parse_html_details(html_content)
ParseHtmlDetails(h) ==
    IF h.empty THEN PyDict(<<>>, <<>>)
    ELSE SimilarStep(h.divs, CommentStep(h.divs, PriceStep(h.divs, PyDict(<<>>, <<>>))))

-----------------------------------------------------------------------------
(* Input documents *)

MaxGarbage == 3
MaxRecords == 2
MaxTail == 3

Chars_a == <<"a">>
Chars_b == <<"b">>

\* Serializers used to write the input documents.
StrText(chars) == <<Q>> \o chars \o <<Q>>
MemberText(key, valueText) == StrText(key) \o <<":">> \o valueText
ObjectText(memberTexts) == <<"{">> \o memberTexts \o <<"}">>

RECURSIVE JoinComma(_)
JoinComma(texts) ==
    IF texts = <<>> THEN <<>>
    ELSE IF Len(texts) = 1 THEN texts[1]
    ELSE texts[1] \o <<",">> \o JoinComma(Tail(texts))

ArrayText(texts) == <<"[">> \o JoinComma(texts) \o <<"]">>

\* {"items":[r1,...,rn]}
ListingText(recs) == ObjectText(MemberText(Chars_items, ArrayText(recs)))

\* All sequences of at most n elements of S.
RECURSIVE SeqsUpTo(_, _)
SeqsUpTo(S, n) ==
    IF n = 0 THEN {<<>>}
    ELSE LET prev == SeqsUpTo(S, n - 1) IN
         prev \cup {Append(p, x) : p \in prev, x \in S}

\* All concatenations of at most n pieces of S.
RECURSIVE Concats(_, _)
Concats(S, n) ==
    IF n = 0 THEN {<<>>}
    ELSE LET prev == Concats(S, n - 1) IN
         prev \cup {p \o x : p \in prev, x \in S}

Rec_a1 == ObjectText(MemberText(Chars_a, <<"1">>))
Rec_a2 == ObjectText(MemberText(Chars_a, <<"2">>))
Rec_ab == ObjectText(MemberText(Chars_a, <<"1">>) \o <<",">> \o MemberText(Chars_b, <<"2">>))
Rec_arr == ObjectText(MemberText(Chars_a, ArrayText(<< <<"1">> >>)))
Rec_obj == ObjectText(MemberText(Chars_a, ObjectText(MemberText(Chars_b, <<"1">>))))

Rec_div == ObjectText(MemberText(Chars_a, StrText(Marker)))

\* Strictly valid JSON object strings.
Payloads == {Rec_a1, ObjectText(<<>>), ListingText(<<Rec_a1, Rec_a2>>), Rec_div}

\* What a document starts with: a payload or no JSON at all.
Heads == Payloads \cup {<<>>}
Leads == {<<>>, <<" ">>}
GarbagePieces == { <<"x">>, <<" ">>, <<",">>, <<"]">>, <<"}">>, Marker }
Garbage == Concats(GarbagePieces, MaxGarbage)

Records == {Rec_a1, Rec_a2, Rec_ab, Rec_arr, Rec_obj, Rec_div}
RecordSeqs == SeqsUpTo(Records, MaxRecords)

RepairHeads ==
    { <<>>,
      <<"{">>,
      <<"{">> \o MemberText(Chars_a, <<>>),
      <<"{">> \o MemberText(Chars_a, <<"[">>),
      <<"{">> \o MemberText(Chars_a, <<"{">>) }
RepairTokens ==
    { <<"{">>, <<"}">>, <<"[">>, <<"]">>, <<",">>, <<":">>, <<" ">>, <<"1">>,
      StrText(Chars_a) }
RepairTails == Concats(RepairTokens, MaxTail)

MaxUk == 2
Chars_abc == <<"a", "b", "c">>

\* Amounts uk * 100000 + man * 10 + r, of both signs, and the non-numbers.
ManSamples == {0, 1, 170, 999, 1000, 3500, 9000, 9999}
Amounts ==
    {uk * 100000 + man * 10 + r : uk \in 0 .. MaxUk, man \in ManSamples, r \in 0 .. 9}
MoneyInputs ==
    {PyInt(a) : a \in Amounts} \cup {PyInt(0 - a) : a \in Amounts}
        \cup {PyNone, PyNaN, PyStr(Chars_abc), PyStr(<<"1", "7", "0", "0">>)}

MaxItems == 2
MaxDivs == 2

Load_none == ObjectText(<<>>)
Load_deposit == ObjectText(MemberText(Chars_deposit, <<"1", "7", "0", "0">>))
Load_both ==
    ObjectText(MemberText(Chars_deposit, <<"1", "3", "5", "0", "0", "0">>) \o <<",">>
               \o MemberText(Chars_monthlyRent, <<"9", "0", "0">>))
Load_rent == ObjectText(MemberText(Chars_monthlyRent, <<"0">>))
Load_text == ObjectText(MemberText(Chars_deposit, StrText(Chars_abc)))
Load_other ==
    ObjectText(MemberText(Chars_premium, <<"9", "0", "0", "0", "0">>) \o <<",">>
               \o MemberText(Chars_maintenanceFee, <<"1", "5">>))

LoadRecords == {Load_none, Load_deposit, Load_both, Load_rent, Load_text, Load_other}
LoadHeads ==
    {ListingText(recs) : recs \in SeqsUpTo(LoadRecords, MaxItems)}
        \cup {<<"x">>, Rec_a1}
LoadTails == {<<>>, Marker \o <<">">>}

Row(th, td) == [th |-> th, td |-> td]
Li(class, price1) == [class |-> class, price1 |-> price1]

DivSamples ==
    { Div("price-container",
          <<Row(SomeText(<<" ", "Deposit">>), SomeText(<<"1000", " ">>))>>, NoP, <<>>),
      Div("price-container",
          <<Row(SomeText(Key_similar_items), SomeText(<<"x">>)),
            Row(SomeText(Key_comment), NoText),
            Row(SomeText(<<"Deposit">>), SomeText(<<"2000">>))>>, NoP, <<>>),
      Div("comment", <<>>, SomeP(<< <<"line1">>, <<" ">>, <<"line2", " ">> >>), <<>>),
      Div("comment", <<>>, NoP, <<>>),
      Div("similar", <<>>, NoP,
          <<Li("article-list-item", SomeText(<<" ", "1억">>)),
            Li("banner", SomeText(<<"2억">>)),
            Li("article-list-item", NoText),
            Li("article-list-item", SomeText(<<"3억">>))>>),
      Div("similar", <<>>, NoP, <<>>),
      Div("card", <<>>, NoP, <<>>) }
HtmlInputs == {EmptyHtml} \cup {Html(divs) : divs \in SeqsUpTo(DivSamples, MaxDivs)}

\* How the environment composed a document: lead \o head \o tail, or the
\* listing of recs cut after cut characters.
Src(lead, head, tail, recs, cut) ==
    [lead |-> lead, head |-> head, tail |-> tail, recs |-> recs, cut |-> cut]
NoSrc == Src(<<>>, <<>>, <<>>, <<>>, 0)

-----------------------------------------------------------------------------
(* State machine *)

Idle ==
    /\ pc = "start"
    /\ json_part = <<>>
    /\ html_part = <<>>
    /\ json_str = <<>>
    /\ found = FALSE
    /\ json_data = PyNone
    /\ df = PyNone
    /\ raw_html = <<>>
    /\ fmt = <<>>
    /\ details = PyNone

\* A payload followed by garbage.
Init ==
    /\ Idle
    /\ \E lead \in Leads, head \in Heads, tail \in Garbage :
          /\ src = Src(lead, head, tail, <<>>, 0)
          /\ content = lead \o head \o tail
    /\ v = PyNone
    /\ html_content = EmptyHtml

\* A listing document cut short.
InitTrunc ==
    /\ Idle
    /\ \E recs \in RecordSeqs :
          \E cut \in 0 .. Len(ListingText(recs)) :
              /\ src = Src(<<>>, ListingText(recs), <<>>, recs, cut)
              /\ content = UpTo(ListingText(recs), cut)
    /\ v = PyNone
    /\ html_content = EmptyHtml

\* Arbitrary token sequences.
InitRepair ==
    /\ Idle
    /\ \E head \in RepairHeads, tail \in RepairTails :
          /\ src = Src(<<>>, head, tail, <<>>, 0)
          /\ content = head \o tail
    /\ v = PyNone
    /\ html_content = EmptyHtml

\* A money value.
InitMoney ==
    /\ Idle
    /\ src = NoSrc
    /\ content = <<>>
    /\ v \in MoneyInputs
    /\ html_content = EmptyHtml

\* A call of format_kor_money_from_thousand(v).
Format ==
    /\ pc = "start"
    /\ fmt' = FormatKorMoneyFromThousand(v)
    /\ pc' = "formatted"
    /\ UNCHANGED <<src, content, json_part, html_part, json_str, found, json_data,
                   df, raw_html, v, html_content, details>>

\* A listing document with monetary fields.
InitLoad ==
    /\ Idle
    /\ \E head \in LoadHeads, tail \in LoadTails :
          /\ src = Src(<<>>, head, tail, <<>>, 0)
          /\ content = head \o tail
    /\ v = PyNone
    /\ html_content = EmptyHtml

\* An html fragment.
InitDetails ==
    /\ Idle
    /\ src = NoSrc
    /\ content = <<>>
    /\ v = PyNone
    /\ html_content \in HtmlInputs

\* A call of load_and_preprocess_data(content).
Load ==
    /\ pc = "start"
    /\ \E r \in {ExtractDataFromMarkdown(content)} :
          /\ json_part' = r.json_part
          /\ html_part' = r.html_part
          /\ found' = r.found
          /\ json_str' = r.json_str
          /\ json_data' = r.json_data
          /\ \E q \in {Preprocess(r.json_data, r.html_part)} :
                /\ df' = q.df
                /\ raw_html' = q.raw_html
    /\ pc' = "loaded"
    /\ UNCHANGED <<src, content, v, fmt, html_content, details>>

\* A call of parse_html_details(html_content).
ParseDetails ==
    /\ pc = "start"
    /\ details' = ParseHtmlDetails(html_content)
    /\ pc' = "parsed"
    /\ UNCHANGED <<src, content, json_part, html_part, json_str, found, json_data,
                   df, raw_html, v, fmt, html_content>>

\* A call of extract_data_from_markdown(content).
Extract ==
    /\ pc = "start"
    /\ \E r \in {ExtractDataFromMarkdown(content)} :
          /\ json_part' = r.json_part
          /\ html_part' = r.html_part
          /\ found' = r.found
          /\ json_str' = r.json_str
          /\ json_data' = r.json_data
    /\ pc' = "extracted"
    /\ UNCHANGED <<src, content, df, raw_html, v, fmt, html_content, details>>

Next == Extract
Spec == Init /\ [][Next]_vars

NextTrunc == Extract
SpecTrunc == InitTrunc /\ [][NextTrunc]_vars

NextRepair == Extract
SpecRepair == InitRepair /\ [][NextRepair]_vars

NextMoney == Format
SpecMoney == InitMoney /\ [][NextMoney]_vars

NextLoad == Load
SpecLoad == InitLoad /\ [][NextLoad]_vars

NextDetails == ParseDetails
SpecDetails == InitDetails /\ [][NextDetails]_vars

-----------------------------------------------------------------------------
(* Properties of extract_data_from_markdown *)

Extracted == pc = "extracted"

Terminators == {"}", "]", ","}
HasTerminator(s) == \E i \in 1 .. Len(s) : s[i] \in Terminators
HasMarker(s) == \E k \in 1 .. Len(s) : OccursAt(s, Marker, k)

\* The part of s before its first marker, all of s when it has none.
BeforeMarker(s) ==
    IF HasMarker(s)
    THEN UpTo(s, (CHOOSE k \in 1 .. Len(s) :
                     OccursAt(s, Marker, k) /\ \A j \in 1 .. k - 1 : ~OccursAt(s, Marker, j)) - 1)
    ELSE s

\* The values of the sample records, written out.
ValueOf(rec) ==
    CASE rec = Rec_a1 -> PyDict(<<Chars_a>>, <<PyInt(1)>>)
      [] rec = Rec_a2 -> PyDict(<<Chars_a>>, <<PyInt(2)>>)
      [] rec = Rec_ab -> PyDict(<<Chars_a, Chars_b>>, <<PyInt(1), PyInt(2)>>)
      [] rec = Rec_arr -> PyDict(<<Chars_a>>, <<PyList(<<PyInt(1)>>)>>)
      [] rec = Rec_obj -> PyDict(<<Chars_a>>, <<PyDict(<<Chars_b>>, <<PyInt(1)>>)>>)
      [] rec = Rec_div -> PyDict(<<Chars_a>>, <<PyStr(Marker)>>)

\* The object {"items": [the first k records]}.
ListingValue(recs, k) ==
    PyDict(<<Chars_items>>, <<PyList([i \in 1 .. k |-> ValueOf(recs[i])])>>)

\* The document is a strictly valid JSON object string followed by a tail.
PayloadThenTail ==
    /\ Extracted
    /\ src.lead = <<>>
    /\ src.head # <<>>
    /\ Loads(src.head).ok

\* C1 as stated: a strictly valid JSON object string followed by any text
\* whatever is extracted as the object that the string alone parses to.
C1_RoundTripAnyTail ==
    PayloadThenTail => json_data = Loads(src.head).val

\* C1 amended: a strictly valid JSON object string that does not contain the
\* marker "<div", followed by a text whose part before its first marker holds
\* none of '}', ']', ',', is extracted as the object that the string alone
\* parses to; an empty tail is one such text.
C1_RoundTripCleanTail ==
    (PayloadThenTail /\ ~HasMarker(src.head) /\ ~HasTerminator(BeforeMarker(src.tail)))
        => json_data = Loads(src.head).val

\* C1 witness: a listing followed by narrative text and an html block that
\* holds a brace, recovered whole.
C1_Witness ==
    /\ PayloadThenTail
    /\ src.head = ListingText(<<Rec_a1, Rec_a2>>)
    /\ src.tail = <<"x">> \o Marker \o <<"}">>
    /\ json_data = ListingValue(<<Rec_a1, Rec_a2>>, 2)

\* C8: with a marker in the document the split is at its first occurrence,
\* json_part being the stripped text before it and html_part the text from it
\* on; without a marker html_part is empty, json_part is the document and the
\* extraction is that of the stripped document.
C8_SplitAtFirstMarker ==
    Extracted =>
        IF HasMarker(content)
        THEN \E k \in 1 .. Len(content) :
                /\ OccursAt(content, Marker, k)
                /\ \A j \in 1 .. k - 1 : ~OccursAt(content, Marker, j)
                /\ json_part = Strip(UpTo(content, k - 1))
                /\ html_part = From(content, k)
                /\ OccursAt(html_part, Marker, 1)
                /\ UpTo(content, k - 1) \o html_part = content
        ELSE /\ html_part = <<>>
             /\ json_part = content
             /\ ExtractJson(Strip(content))
                    = [found |-> found, json_str |-> json_str, json_data |-> json_data]

\* C8 witness: a document with two markers and blanks before the first.
C8_Witness ==
    /\ Extracted
    /\ src.head = Rec_a1
    /\ src.tail = <<" ">> \o Marker \o Marker
    /\ json_part = Rec_a1
    /\ html_part = Marker \o Marker

-----------------------------------------------------------------------------
(* Properties of the repair of a listing cut short *)

\* The position of the '[' that opens the items array.
ArrayStart == Len(<<"{">> \o MemberText(Chars_items, <<"[">>))

\* The position of the closing brace of the k-th record in the listing.
RECURSIVE RecEnd(_, _)
RecEnd(recs, k) ==
    IF k = 0 THEN ArrayStart
    ELSE RecEnd(recs, k - 1) + Len(recs[k]) + (IF k > 1 THEN 1 ELSE 0)

\* The number of records that lie completely before the cut.
CompleteCount(recs, cut) ==
    Cardinality({k \in 1 .. Len(recs) : RecEnd(recs, k) <= cut})

\* The text of the record the cut falls in, as far as it was kept.
PartialRecord ==
    LET k == CompleteCount(src.recs, src.cut) IN
    SubSeq(src.head, RecEnd(src.recs, k) + (IF k > 0 THEN 2 ELSE 1), src.cut)

\* The listing is cut right before its closing "]}".
MissingClose ==
    /\ Extracted
    /\ Len(src.recs) >= 1
    /\ src.cut = Len(src.head) - 2

\* The strict parse of json_str fails and the first suffix repairs it.
RepairedByFirstSuffix ==
    /\ ~Loads(json_str).ok
    /\ Loads(json_str \o <<"]", "}">>).ok

\* C2 as stated: a listing of n >= 1 complete item objects without its closing
\* "]}" is repaired to the object holding exactly those n records in order.
C2_RepairAnyItems ==
    MissingClose =>
        /\ RepairedByFirstSuffix
        /\ json_data = ListingValue(src.recs, Len(src.recs))

\* C2 amended: the same for item objects that do not contain the marker "<div".
C2_RepairItemsWithoutMarker ==
    (MissingClose /\ ~HasMarker(content)) =>
        /\ RepairedByFirstSuffix
        /\ json_data = ListingValue(src.recs, Len(src.recs))

\* C2 witness: {"items":[{"a":1},{"a":2} yields the two records.
C2_Witness ==
    /\ MissingClose
    /\ content = UpTo(ListingText(<<Rec_a1, Rec_a2>>), Len(ListingText(<<Rec_a1, Rec_a2>>)) - 2)
    /\ RepairedByFirstSuffix
    /\ Len(GetKey(json_data, Chars_items).kids) = 2

\* The cut falls inside the items array, at or after the end of the first record.
CutInsideArray ==
    /\ Extracted
    /\ Len(src.recs) >= 1
    /\ RecEnd(src.recs, 1) <= src.cut
    /\ src.cut <= Len(src.head) - 2

\* C9 as stated: wherever the cut falls inside the array, the records that lie
\* completely before it are returned.
C9_PrefixAnyCut ==
    CutInsideArray => json_data = ListingValue(src.recs, CompleteCount(src.recs, src.cut))

\* C9 amended: the records that lie completely before the cut are returned when
\* the kept part of the record the cut falls in holds none of '}', ']', ','
\* and the kept text holds no marker "<div".
C9_PrefixCleanCut ==
    (CutInsideArray /\ ~HasTerminator(PartialRecord) /\ ~HasMarker(content))
        => json_data = ListingValue(src.recs, CompleteCount(src.recs, src.cut))

\* C9 witness: a cut inside the second record, after its opening brace and
\* key, returns the first record.
C9_Witness ==
    /\ CutInsideArray
    /\ Len(src.recs) = 2
    /\ CompleteCount(src.recs, src.cut) = 1
    /\ Len(PartialRecord) >= 4
    /\ ~HasTerminator(PartialRecord)
    /\ json_data = ListingValue(src.recs, 1)

-----------------------------------------------------------------------------
(* Properties of the suffix chain *)

\* C3: the first result is an object or None; it is None when json_part holds
\* no '{', and when the strict parse and the four repairs all fail; the second
\* result is a text, empty or starting with the marker.
C3_FailureByValue ==
    Extracted =>
        /\ json_data.t \in {"none", "dict"}
        /\ html_part = <<>> \/ OccursAt(html_part, Marker, 1)
        /\ (\A i \in 1 .. Len(json_part) : json_part[i] # "{") => json_data = PyNone
        /\ ( /\ found
             /\ ~Loads(json_str).ok
             /\ ~Loads(json_str \o <<"]", "}">>).ok
             /\ ~Loads(json_str \o <<"}">>).ok
             /\ ~Loads(json_str \o <<" ", "]", " ", "}">>).ok ) => json_data = PyNone

\* C3 witness: a candidate with a '{' that no suffix repairs.
C3_Witness ==
    /\ Extracted
    /\ found
    /\ HasTerminator(json_str)
    /\ ~Loads(json_str).ok
    /\ ~Loads(json_str \o <<"]", "}">>).ok
    /\ ~Loads(json_str \o <<"}">>).ok
    /\ json_data = PyNone

\* The candidate's strict parse fails.
StrictFails == Extracted /\ found /\ ~Loads(json_str).ok

\* C10: when the strict parse fails, at most one of "]}" and "}" repairs the
\* candidate, the third and fourth suffixes succeed only where one of the
\* first two does, and the result is that of trying "]}" and "}" alone, in
\* either order.
C10_TwoSuffixesSuffice ==
    StrictFails =>
        /\ ~(Loads(json_str \o <<"]", "}">>).ok /\ Loads(json_str \o <<"}">>).ok)
        /\ \A i \in 3 .. Len(Suffixes) :
              Loads(json_str \o Suffixes[i]).ok
                  => \E j \in 1 .. 2 : Loads(json_str \o Suffixes[j]).ok
        /\ json_data = TrySuffixes(json_str, << <<"]", "}">>, <<"}">> >>, 1)
        /\ json_data = TrySuffixes(json_str, << <<"}">>, <<"]", "}">> >>, 1)

\* C10 witness: an open array that both "]}" and " ] }" would close.
C10_Witness ==
    /\ StrictFails
    /\ Loads(json_str \o <<" ", "]", " ", "}">>).ok
    /\ Loads(json_str \o <<"]", "}">>).ok
    /\ json_data # PyNone
    /\ EndsWith(json_str, "1")

-----------------------------------------------------------------------------
(* Properties of format_kor_money_from_thousand *)

Formatted == pc = "formatted"

\* The number a grouped decimal text denotes: commas skipped, '-' negating.
RECURSIVE NatOfText(_, _, _)
NatOfText(t, i, acc) ==
    IF i > Len(t) THEN acc
    ELSE IF t[i] = "," THEN NatOfText(t, i + 1, acc)
    ELSE NatOfText(t, i + 1, acc * 10 + DigitValue(t[i]))

NumberOfText(t) ==
    IF t # <<>> /\ t[1] = "-" THEN 0 - NatOfText(t, 2, 0) ELSE NatOfText(t, 1, 0)

\* floor(x / 10) and the integer part of x / 10.
Floor10(x) == x \div 10
Trunc10(x) == IF x >= 0 THEN x \div 10 ELSE 0 - ((0 - x) \div 10)

\* The text is "<number>만".
IsManText(t, number) ==
    /\ Len(t) >= 2
    /\ t[Len(t)] = "만"
    /\ NumberOfText(UpTo(t, Len(t) - 1)) = number

\* The text is "<hi>억 <lo>만" when lo > 0 and "<hi>억" when lo = 0.
IsUkText(t, hi, lo) ==
    \E p \in 2 .. Len(t) :
        /\ t[p] = "억"
        /\ NumberOfText(UpTo(t, p - 1)) = hi
        /\ IF lo > 0
           THEN /\ Len(t) >= p + 3
                /\ t[p + 1] = " "
                /\ IsManText(From(t, p + 2), lo)
           ELSE Len(t) = p

\* The worked examples: 1700, 135000, 90000, 100000.
FormatExamples ==
    /\ v = PyInt(1700) => fmt = <<"1", "7", "0", "만">>
    /\ v = PyInt(135000) => fmt = <<"1", "억", " ", "3", ",", "5", "0", "0", "만">>
    /\ v = PyInt(90000) => fmt = <<"9", ",", "0", "0", "0", "만">>
    /\ v = PyInt(100000) => fmt = <<"1", "억">>

\* The reference of the claim; the number shown below one 억 is floor(v / 10)
\* when floored, the integer part of v / 10 otherwise.
FormatReference(floored) ==
    /\ (v.t = "none" \/ v = PyInt(0)) => fmt = <<"0">>
    /\ (v.t = "int" /\ v.n # 0) =>
          IF v.n >= 100000
          THEN IsUkText(fmt, v.n \div 100000, (v.n \div 10) % 10000)
          ELSE IsManText(fmt, IF floored THEN Floor10(v.n) ELSE Trunc10(v.n))
    /\ FormatExamples

\* C4 as stated: for every integer and for null the text follows the
\* reference, the number below one 억 being floor(v / 10).
C4_FloorEverywhere == Formatted => FormatReference(TRUE)

\* C4 amended: the same with the number below one 억 being the integer part of
\* v / 10, truncated toward zero; it is floor(v / 10) for v >= 0.
C4_TruncTowardZero ==
    Formatted =>
        /\ FormatReference(FALSE)
        /\ (v.t = "int" /\ v.n > 0 /\ v.n < 100000) => IsManText(fmt, Floor10(v.n))

\* C4 witness: -15 is shown as -1만, not as floor(-1.5) = -2.
C4_Witness ==
    /\ Formatted
    /\ v = PyInt(0 - 15)
    /\ fmt = <<"-", "1", "만">>

-----------------------------------------------------------------------------
(* Properties of load_and_preprocess_data *)

Loaded == pc = "loaded"

\* The source records of the table: json_data["items"].
SourceItems == GetKey(json_data, Chars_items).kids

\* df[col][i]
Cell(col, i) == df.kids[i].kids[KeyIndex(df.keys, col, 1)]

\* C5: a returned table has, for each of the four monetary fields, the columns
\* <field>_man and <field>_fmt, also when it has no rows; a record that has the
\* field gets value / 10 and format(value), a record that lacks it gets the
\* float zero and "0".
C5_PairForEveryRecord ==
    (Loaded /\ df.t = "frame") =>
        \A c \in 1 .. Len(AmountCols) :
            LET col == AmountCols[c] IN
            /\ HasColumn(df, col \o Chars_man)
            /\ HasColumn(df, col \o Chars_fmt)
            /\ \A i \in 1 .. Len(SourceItems) :
                  IF HasKey(SourceItems[i], col)
                  THEN LET value == GetKey(SourceItems[i], col) IN
                       /\ Cell(col \o Chars_man, i) = PyFloat(value.n)
                       /\ Cell(col \o Chars_fmt, i) = PyStr(FormatKorMoneyFromThousand(value))
                  ELSE /\ Cell(col \o Chars_man, i) = PyFloat(0)
                       /\ Cell(col \o Chars_fmt, i) = PyStr(<<"0">>)

\* C6: the call fails only when no JSON was found or the object has no items;
\* a monetary field that holds a non-number degrades to the float zero and "0".
C6_OnlyTwoFailures ==
    Loaded =>
        /\ df.t = "none" <=> (json_data.t = "none" \/ ~HasKey(json_data, Chars_items))
        /\ df.t = "frame" =>
              \A c \in 1 .. Len(AmountCols), i \in 1 .. Len(SourceItems) :
                  LET col == AmountCols[c] IN
                  (HasKey(SourceItems[i], col) /\ GetKey(SourceItems[i], col).t = "str")
                      => /\ Cell(col \o Chars_man, i) = PyFloat(0)
                         /\ Cell(col \o Chars_fmt, i) = PyStr(<<"0">>)

-----------------------------------------------------------------------------
(* Properties of parse_html_details *)

Parsed == pc = "parsed"

NoSimilarBlock ==
    \A i \in 1 .. Len(html_content.divs) : html_content.divs[i].class # "similar"

\* A list of {"price": text} entries.
IsPriceList(x) ==
    /\ x.t = "list"
    /\ \A i \in 1 .. Len(x.kids) :
          /\ x.kids[i].t = "dict"
          /\ x.kids[i].keys = <<Key_price>>
          /\ x.kids[i].kids[1].t = "str"

SimilarItemsContract ==
    /\ HasKey(details, Key_similar_items)
    /\ IsPriceList(GetKey(details, Key_similar_items))
    /\ NoSimilarBlock => GetKey(details, Key_similar_items) = PyList(<<>>)

\* C7 as stated: for every fragment, the empty one included, the mapping holds
\* "similar_items", a list of {price: text} entries, empty when the fragment
\* has no similar block.
C7_SimilarItemsAlways == Parsed => SimilarItemsContract

\* C7 amended: the same for every fragment that is not the empty string; the
\* empty fragment yields the empty mapping.
C7_SimilarItemsUnlessEmpty ==
    Parsed =>
        IF html_content.empty THEN details = PyDict(<<>>, <<>>) ELSE SimilarItemsContract

\* C7 witness: a fragment without a similar block whose price table has a row
\* headed "similar_items".
C7_Witness ==
    /\ Parsed
    /\ ~html_content.empty
    /\ NoSimilarBlock
    /\ \E i \in 1 .. Len(html_content.divs) :
          /\ html_content.divs[i].class = "price-container"
          /\ \E r \in 1 .. Len(html_content.divs[i].rows) :
                html_content.divs[i].rows[r].th = SomeText(Key_similar_items)
    /\ GetKey(details, Key_similar_items) = PyList(<<>>)

=============================================================================
